---- MODULE Spec2Model ----
(***************************************************************************)
(* ServerShelf: the ServerDashboard component (loader, search, view state)  *)
(* and public/config.js (the configuration document and its localhost      *)
(* normalisation).                                                         *)
(*                                                                         *)
(* Strings whose content the program inspects (url, name, description,     *)
(* alt_url, mainUrl, the search query, the hostname) are sequences of      *)
(* one-character strings.  Keys, ids, icons, messages are atomic strings.  *)
(* A JS object is a record; an optional property that is absent is a       *)
(* field that is not in the record's DOMAIN.  null/undefined is Null.      *)
(***************************************************************************)
EXTENDS Integers, Sequences, FiniteSets, TLC

VARIABLES
    config,           \* useState<Config | null>(null)
    loading,          \* useState(true)
    error,            \* useState<string | null>(null); "null" stands for null
    activeTab,        \* useState("")
    searchQuery,      \* useState("")
    isMobile,         \* useState(false)
    sidebarOpen,      \* useState(false)
    mounted,          \* useState(false)
    dashboardConfig,  \* window.dashboardConfig
    hostname,         \* window.location.hostname
    pending,          \* script elements whose load/error event has not fired
    loadCount,        \* number of loadConfig() calls so far
    toast,            \* title of the last toast shown, "none" before any
    lastOp,           \* the handler that ran last, with its inputs
    newest,           \* how the most recently started load ended, if it has
    memoSearch,       \* what useMemo holds: its dependencies and its value
    copiedUrl,        \* useState<string | null>(null): <<>> is null, <<u>> is u
    clipboardApi,     \* navigator.clipboard && window.isSecureContext
    writes,           \* urls of the writeText() calls that have not settled
    timers,           \* number of setTimeout(..., 1500) callbacks not yet run
    copyCount,        \* number of copyToClipboard() calls so far
    lastCopied,       \* url of the last copy that succeeded, <<>> before any
    copyReport,       \* what the last finished copy tried and what it reported
    now,              \* what Date.now() returns, in milliseconds
    tokens            \* the t= tokens of the script urls requested so far

vars == <<config, loading, error, activeTab, searchQuery, isMobile, sidebarOpen,
          mounted, dashboardConfig, hostname, pending, loadCount, toast,
          lastOp, newest, memoSearch, copiedUrl, clipboardApi, writes, timers,
          copyCount, lastCopied, copyReport, now, tokens>>

\* the clock and what loadConfig took from it
clockVars == <<now, tokens>>

\* the state of copyToClipboard
copyVars == <<copiedUrl, clipboardApi, writes, timers, copyCount, lastCopied,
              copyReport>>

----------------------------------------------------------------------------
(* Bounds *)

MaxLoads == 3
MaxQueryLen == 3
MaxServices == 2
MaxCopies == 2
MaxClock == 2

----------------------------------------------------------------------------
(* Characters and strings *)

UpperLetters == <<"A","B","C","D","E","F","G","H","I","J","K","L","M",
                  "N","O","P","Q","R","S","T","U","V","W","X","Y","Z">>
LowerLetters == <<"a","b","c","d","e","f","g","h","i","j","k","l","m",
                  "n","o","p","q","r","s","t","u","v","w","x","y","z">>

WhiteSpace == {" ", "\t", "\n"}

\* the lower-case letter of every upper-case letter
LowerOf ==
    [c \in {UpperLetters[i] : i \in 1..Len(UpperLetters)} |->
        LowerLetters[CHOOSE i \in 1..Len(UpperLetters) : UpperLetters[i] = c]]

LowerChar(c) == IF c \in DOMAIN LowerOf THEN LowerOf[c] ELSE c

toLowerCase(s) == [i \in 1..Len(s) |-> LowerChar(s[i])]

\* the least index at which sub occurs in s, 0 when it does not occur
indexOf(s, sub) ==
    LET starts == {i \in 1..(Len(s) - Len(sub) + 1) :
                      SubSeq(s, i, i + Len(sub) - 1) = sub}
    IN IF starts = {} THEN 0
       ELSE CHOOSE i \in starts : \A j \in starts : i <= j

includes(s, sub) ==
    \E i \in 1..(Len(s) - Len(sub) + 1) : SubSeq(s, i, i + Len(sub) - 1) = sub

\* String.prototype.replace with a string pattern: the first occurrence only
replace(s, pat, by) ==
    LET i == indexOf(s, pat)
    IN IF i = 0 THEN s
       ELSE SubSeq(s, 1, i - 1) \o by \o SubSeq(s, i + Len(pat), Len(s))

RECURSIVE trimStart(_)
trimStart(s) ==
    IF s # <<>> /\ Head(s) \in WhiteSpace THEN trimStart(Tail(s)) ELSE s

RECURSIVE trimEnd(_)
trimEnd(s) ==
    IF s # <<>> /\ s[Len(s)] \in WhiteSpace
    THEN trimEnd(SubSeq(s, 1, Len(s) - 1)) ELSE s

trim(s) == trimEnd(trimStart(s))

----------------------------------------------------------------------------
(* JS values *)

Null == [null |-> TRUE]
NoError == "null"

HasTabs(c) == "tabs" \in DOMAIN c
HasAltUrl(s) == "alt_url" \in DOMAIN s

----------------------------------------------------------------------------
(* public/config.js: documents the file may hold when it is fetched *)

HTTP == <<"h","t","t","p",":","/","/">>
LOCALHOST == <<"l","o","c","a","l","h","o","s","t">>

Plex ==
    [name |-> <<"P","l","e","x">>,
     url |-> HTTP \o <<"x",":","3","2">>,
     description |-> <<"s","t","r","e","a","m">>,
     icon |-> "film"]

Gitea ==
    [name |-> <<"G","i","t","e","a">>,
     url |-> HTTP \o LOCALHOST \o <<":","3","0">>,
     description |-> <<"g","i","t"," ","h","o","s","t">>,
     alt_url |-> HTTP \o <<"t","i","g",".","i","o","/">> \o LOCALHOST]

Wiki ==
    [name |-> <<"W","i","k","i">>,
     url |-> HTTP \o LOCALHOST \o <<"/","?","r","=">> \o LOCALHOST,
     description |-> <<"G","i","t"," ","d","o","c","s">>]

TabA ==
    [name |-> "Media", key |-> "a", id |-> "media-server",
     mainUrl |-> HTTP \o LOCALHOST \o <<":","8","0","8","0">>,
     icon |-> "home", services |-> <<Plex>>]

TabB ==
    [name |-> "Dev", key |-> "b", id |-> "dev-server",
     mainUrl |-> HTTP \o <<"y">>,
     icon |-> "server", services |-> <<Gitea>>]

TabB2 ==
    [name |-> "Dev", key |-> "b", id |-> "dev-server",
     mainUrl |-> HTTP \o <<"y">>,
     icon |-> "server", services |-> <<Wiki, Gitea, Wiki>>]

\* the service of config.js lines 139-142, whose description holds "("
Minio ==
    [name |-> <<"M","i","n","i","o">>,
     url |-> HTTP \o <<"m",":","9">>,
     description |-> <<"(","S","3",")">>,
     icon |-> "bucket"]

TabM ==
    [name |-> "Media", key |-> "m", id |-> "media-server",
     mainUrl |-> HTTP \o <<"m">>,
     icon |-> "film", services |-> <<Minio, Gitea>>]

TabC ==
    [name |-> "Cloud", key |-> "c", id |-> "cloud-vps",
     mainUrl |-> HTTP \o <<"z">>,
     icon |-> "cloud", services |-> <<>>]

\* window.dashboardConfig = { tabs: [...] } as written in the file
DocNames == {"DocAB", "DocBC", "DocEmpty"}

Document(n) ==
    CASE n = "DocAB"    -> [tabs |-> <<TabA, TabB>>]
      [] n = "DocBC"    -> [tabs |-> <<TabB2, TabC>>]
      [] n = "DocEmpty" -> [tabs |-> <<>>]

\* window.dashboardConfig = { servers: [] }: an object that exposes no tabs
NoTabsDocument == [servers |-> <<>>]

Hostnames == { <<"e","x",".","o","r","g">>, LOCALHOST }

\* faulty variant of NormalizeUrl: what follows the host token is lost
NormalizeUrlDropRest(u, currentHost) ==
    IF includes(u, LOCALHOST)
    THEN SubSeq(u, 1, indexOf(u, LOCALHOST) - 1) \o currentHost
    ELSE u

\* lines 189-191, 195-200: if (u.includes("localhost")) u = u.replace(...)
NormalizeUrl(u, currentHost) ==
    IF includes(u, LOCALHOST) THEN replace(u, LOCALHOST, currentHost) ELSE u

\* faulty variant of NormalizeService: a missing alt_url is taken as ""
NormalizeServiceDefaultAlt(s, currentHost) ==
    [alt_url |-> NormalizeUrl(IF HasAltUrl(s) THEN s.alt_url ELSE <<>>, currentHost)]
      @@ [s EXCEPT !.url = NormalizeUrl(s.url, currentHost)]

\* lines 194-201
NormalizeService(s, currentHost) ==
    IF HasAltUrl(s) /\ s.alt_url # <<>>
    THEN [s EXCEPT !.url = NormalizeUrl(s.url, currentHost),
                   !.alt_url = NormalizeUrl(s.alt_url, currentHost)]
    ELSE [s EXCEPT !.url = NormalizeUrl(s.url, currentHost)]

NormalizeTab(t, currentHost) ==
    [t EXCEPT !.mainUrl = NormalizeUrl(t.mainUrl, currentHost),
              !.services = [i \in 1..Len(t.services) |->
                               NormalizeService(t.services[i], currentHost)]]

NormalizeConfig(c, currentHost) ==
    [c EXCEPT !.tabs = [i \in 1..Len(c.tabs) |-> NormalizeTab(c.tabs[i], currentHost)]]

\* What the fetch of config.js and the run of the script can come to.
\* FetchError: the script element fires "error".  The others fire "load":
\* SyntaxError: the file does not parse, nothing runs, the global is untouched;
\* AssignsNull: the file sets window.dashboardConfig to no object;
\* NoTabs: the file sets an object without tabs (the forEach at line 187
\* then throws inside the script, after the assignment);
\* a document name: the file runs to its end.
Outcomes == {"FetchError", "SyntaxError", "AssignsNull", "NoTabs"} \cup DocNames

\* window.dashboardConfig after the script element has been handled
ScriptResult(global, outcome, currentHost) ==
    CASE outcome \in {"FetchError", "SyntaxError"} -> global
      [] outcome = "AssignsNull" -> Null
      [] outcome = "NoTabs" -> NoTabsDocument
      [] OTHER -> NormalizeConfig(Document(outcome), currentHost)

----------------------------------------------------------------------------
(* search *)

\* faulty variant of ServiceMatches: alt_url is not searched
ServiceMatchesNoAlt(service, query) ==
    \/ includes(toLowerCase(service.name), query)
    \/ includes(toLowerCase(service.description), query)
    \/ includes(toLowerCase(service.url), query)

\* lines 331-336, query already lower-cased
ServiceMatches(service, query) ==
    \/ includes(toLowerCase(service.name), query)
    \/ includes(toLowerCase(service.description), query)
    \/ includes(toLowerCase(service.url), query)
    \/ HasAltUrl(service) /\ includes(toLowerCase(service.alt_url), query)

\* faulty variant of TabResults: a match is put in front of the result list
RECURSIVE TabResultsUnshift(_, _, _)
TabResultsUnshift(tab, query, i) ==
    IF i > Len(tab.services) THEN <<>>
    ELSE TabResultsUnshift(tab, query, i + 1)
         \o (IF ServiceMatches(tab.services[i], query)
             THEN <<[service |-> tab.services[i], serverName |-> tab.name,
                     serverKey |-> tab.key]>>
             ELSE <<>>)

\* lines 330-343: tab.services.forEach, from service i on
RECURSIVE TabResults(_, _, _)
TabResults(tab, query, i) ==
    IF i > Len(tab.services) THEN <<>>
    ELSE (IF ServiceMatches(tab.services[i], query)
          THEN <<[service |-> tab.services[i], serverName |-> tab.name,
                  serverKey |-> tab.key]>>
          ELSE <<>>) \o TabResults(tab, query, i + 1)

\* lines 329-344: config.tabs.forEach, from tab t on
RECURSIVE ConfigResults(_, _, _)
ConfigResults(cfg, query, t) ==
    IF t > Len(cfg.tabs) THEN <<>>
    ELSE TabResults(cfg.tabs[t], query, 1) \o ConfigResults(cfg, query, t + 1)

\* faulty variant of QueryIsBlank: the query is tested without trim()
QueryIsBlankNoTrim(q) == q = <<>>

\* line 324: !searchQuery.trim()
QueryIsBlank(q) == trim(q) = <<>>

\* lines 323-347
search(cfg, q) ==
    IF QueryIsBlank(q) \/ cfg = Null THEN <<>>
    ELSE ConfigResults(cfg, toLowerCase(q), 1)

\* useMemo(..., [searchQuery, config]): recomputed in the render that follows
\* any change of either
searchResults == search(config, searchQuery)

\* faulty variant of UseMemo: the dependency list is [searchQuery] alone
UseMemoQueryOnly(memo, q, cfg) ==
    IF cfg # Null /\ ~HasTabs(cfg) THEN memo
    ELSE IF memo.query = q THEN memo
    ELSE [query |-> q, config |-> cfg, results |-> search(cfg, q)]

\* lines 323, 347: useMemo(() => ..., [searchQuery, config]) in a render with
\* query q and configuration cfg: the function runs when a dependency differs
\* from the one of the previous render.  A configuration is never modified
\* after setConfig has taken it, so the same object is the same value.  With
\* an object that has no tabs the render throws and nothing is shown.
UseMemo(memo, q, cfg) ==
    IF cfg # Null /\ ~HasTabs(cfg) THEN memo
    ELSE IF memo.query = q /\ memo.config = cfg THEN memo
    ELSE [query |-> q, config |-> cfg, results |-> search(cfg, q)]

\* the render that follows a handler
Rerender == memoSearch' = UseMemo(memoSearch, searchQuery', config')

----------------------------------------------------------------------------
(* ServerDashboard: derived values of one render *)

NoOp == [op |-> "init", id |-> 0, origin |-> "none", outcome |-> "none",
         closureTab |-> ""]
NoResult == [done |-> FALSE, outcome |-> "none"]
NoReport == [reported |-> "none", clipboardWrite |-> "untried",
             manualCopy |-> "untried"]

\* the nesting depth of the groups of pattern p after its character i, -1
\* when a ")" closes no group
RECURSIVE GroupDepth(_, _, _)
GroupDepth(p, i, d) ==
    IF i > Len(p) THEN d
    ELSE IF p[i] = "(" THEN GroupDepth(p, i + 1, d + 1)
    ELSE IF p[i] = ")" THEN (IF d = 0 THEN -1 ELSE GroupDepth(p, i + 1, d - 1))
    ELSE GroupDepth(p, i + 1, d)

\* line 356: new RegExp(pattern, "gi") throws a SyntaxError for a pattern
\* whose groups are not balanced (patterns of letters, digits, spaces and
\* parentheses)
RegExpSyntaxError(pattern) == GroupDepth(pattern, 1, 0) # 0

\* line 356: the pattern built from the query, as typed
HighlightPattern(query) == <<"(">> \o query \o <<")">>

\* lines 354-356: highlightText throws
HighlightTextThrows(query) ==
    ~QueryIsBlank(query) /\ RegExpSyntaxError(HighlightPattern(query))

\* a pattern (q) without metacharacters matches the text q at position i,
\* whatever the case of the letters (flag i)
MatchAt(text, q, i) ==
    /\ i + Len(q) - 1 <= Len(text)
    /\ \A k \in 1..Len(q) : LowerChar(text[i + k - 1]) = LowerChar(q[k])

\* line 357: text.split(regex) from position i on, cur being the part read
\* since the last match; lines 359-367: a part that regex.test() accepts is
\* wrapped in the highlight span
RECURSIVE SplitParts(_, _, _, _)
SplitParts(text, q, i, cur) ==
    IF i > Len(text) THEN <<[part |-> cur, mark |-> FALSE]>>
    ELSE IF MatchAt(text, q, i)
    THEN <<[part |-> cur, mark |-> FALSE],
           [part |-> SubSeq(text, i, i + Len(q) - 1), mark |-> TRUE]>>
           \o SplitParts(text, q, i + Len(q), <<>>)
    ELSE SplitParts(text, q, i + 1, Append(cur, text[i]))

\* lines 353-368, for a query that makes a valid pattern without
\* metacharacters
highlightText(text, query) ==
    IF QueryIsBlank(query) THEN <<[part |-> text, mark |-> FALSE]>>
    ELSE SplitParts(text, query, 1, <<>>)

\* lines 530-553: past the returns of lines 373 and 387 the search panel calls
\* highlightText for every result, and the call throws
HighlightThrows ==
    /\ mounted /\ ~loading /\ error = NoError
    /\ config # Null /\ HasTabs(config)
    /\ searchQuery # <<>>
    /\ Len(memoSearch.results) > 0
    /\ HighlightTextThrows(searchQuery)

\* line 370 (and 437, 920): config.tabs is read as soon as config is not null,
\* so a config object without tabs makes the render throw; so does a call of
\* highlightText that throws
RenderThrows == (config # Null /\ ~HasTabs(config)) \/ HighlightThrows

\* lines 373, 387: which of the three screens the render returns
View ==
    IF RenderThrows THEN "Crashed"
    ELSE IF loading \/ ~mounted THEN "Loading"
    ELSE IF error # NoError \/ config = Null THEN "Error"
    ELSE "Ready"

TabKeys(c) == {c.tabs[i].key : i \in 1..Len(c.tabs)}

\* line 370: config?.tabs.find((tab) => tab.key === activeTab)
activeTabData ==
    IF config = Null THEN Null
    ELSE LET hits == {i \in 1..Len(config.tabs) : config.tabs[i].key = activeTab}
         IN IF hits = {} THEN Null
            ELSE config.tabs[CHOOSE i \in hits : \A j \in hits : i <= j]

\* lines 530, 796: searchQuery ? / searchQuery && : a non-empty string is truthy
SearchPanelShown == View = "Ready" /\ searchQuery # <<>>

\* lines 631-633, 898, 975: the tab content is the other branch
TabContentShown == View = "Ready" /\ searchQuery = <<>> /\ activeTabData # Null

\* lines 437 (mobile sidebar, whatever the query), 898 (desktop: !searchQuery)
TabNavShown ==
    View = "Ready" /\ (IF isMobile THEN sidebarOpen ELSE searchQuery = <<>>)

\* faulty variant of ReloadButtonShown: the Loading screen has the button too
ReloadButtonShownWhileLoading == mounted /\ View # "Crashed"

\* lines 397 (Retry), 426 (mobile sidebar header), 754 (desktop header)
ReloadButtonShown ==
    \/ View = "Error"
    \/ View = "Ready" /\ (isMobile => sidebarOpen)

----------------------------------------------------------------------------
(* loadConfig *)

\* line 100: script.src = `/config.js?t=${Date.now()}`
CacheToken(t) == t

\* lines 85-100, 128: what a call of loadConfig does before it returns.
\* closure is the activeTab of the render that created this loadConfig.
StartLoad(origin, closure) ==
    /\ loadCount < MaxLoads
    /\ loading' = TRUE
    /\ error' = NoError
    /\ loadCount' = loadCount + 1
    /\ pending' = pending \cup
          {[id |-> loadCount + 1, origin |-> origin, closureTab |-> closure]}
    /\ newest' = NoResult
    /\ tokens' = Append(tokens, CacheToken(now))
    /\ now' = now

\* line 103: if (window.dashboardConfig)
ConfigFound(global) == global # Null

\* lines 105: !activeTab && window.dashboardConfig.tabs.length > 0 throws a
\* TypeError when activeTab is "" and the object has no tabs
OnloadThrows(global, closureTab) ==
    \/ ~ConfigFound(global)
    \/ closureTab = "" /\ ~HasTabs(global)

\* faulty variant of OnloadConfig: the new tabs are added to the ones already held
OnloadConfigMerge(cfg, global) ==
    IF ~ConfigFound(global) THEN cfg
    ELSE IF cfg # Null /\ HasTabs(cfg) /\ HasTabs(global)
         THEN [global EXCEPT !.tabs = cfg.tabs \o global.tabs]
         ELSE global

\* line 104: setConfig(window.dashboardConfig), reached before any throw
OnloadConfig(cfg, global) ==
    IF ConfigFound(global) THEN global ELSE cfg

\* faulty variant of OnloadActiveTab: the default tab is the last tab
OnloadActiveTabLast(cur, closureTab, global) ==
    IF ConfigFound(global) /\ closureTab = "" /\ HasTabs(global)
       /\ Len(global.tabs) > 0
    THEN global.tabs[Len(global.tabs)].key
    ELSE cur

\* faulty variant of OnloadActiveTab: the default tab is selected on every load
OnloadActiveTabAlways(cur, closureTab, global) ==
    IF ConfigFound(global) /\ HasTabs(global) /\ Len(global.tabs) > 0
    THEN global.tabs[1].key
    ELSE cur

\* lines 105-107
OnloadActiveTab(cur, closureTab, global) ==
    IF ConfigFound(global) /\ closureTab = "" /\ HasTabs(global)
       /\ Len(global.tabs) > 0
    THEN global.tabs[1].key
    ELSE cur

\* lines 110, 114
OnloadError(err, closureTab, global) ==
    IF ~ConfigFound(global) THEN "Configuration not found in config.js"
    ELSE IF OnloadThrows(global, closureTab) THEN "TypeError"
    ELSE err

\* lines 140-146, 303-320: the toast the caller shows when the promise settles
SettleToast(origin, rejected, cur) ==
    CASE origin = "mount"  /\ rejected  -> "Configuration Error"
      [] origin = "mount"  /\ ~rejected -> cur
      [] origin = "reload" /\ rejected  -> "Reload Failed"
      [] origin = "reload" /\ ~rejected -> "Reloaded"

\* lines 139-163: the effects of the first commit
Mount ==
    /\ ~mounted
    /\ StartLoad("mount", activeTab)
    /\ mounted' = TRUE
    /\ \E m \in BOOLEAN : isMobile' = m
    /\ lastOp' = [NoOp EXCEPT !.op = "Mount", !.id = loadCount + 1,
                              !.origin = "mount", !.closureTab = activeTab]
    /\ UNCHANGED <<config, activeTab, searchQuery, sidebarOpen, dashboardConfig,
                   hostname, toast>>
    /\ UNCHANGED copyVars
    /\ Rerender

\* lines 303-320: the reload or retry button
ReloadConfig ==
    /\ ReloadButtonShown
    /\ StartLoad("reload", activeTab)
    /\ lastOp' = [NoOp EXCEPT !.op = "ReloadConfig", !.id = loadCount + 1,
                              !.origin = "reload", !.closureTab = activeTab]
    /\ UNCHANGED <<config, activeTab, searchQuery, isMobile, sidebarOpen, mounted,
                   dashboardConfig, hostname, toast>>
    /\ UNCHANGED copyVars
    /\ Rerender

\* lines 120-126: script.onerror
ScriptOnError(l) ==
    /\ l \in pending
    /\ View # "Crashed"
    /\ pending' = pending \ {l}
    /\ error' = "Failed to load config.js file"
    /\ loading' = FALSE
    /\ toast' = SettleToast(l.origin, TRUE, toast)
    /\ lastOp' = [op |-> "ScriptOnError", id |-> l.id, origin |-> l.origin,
                  outcome |-> "FetchError", closureTab |-> l.closureTab]
    /\ newest' = IF l.id = loadCount
                 THEN [done |-> TRUE, outcome |-> "FetchError"] ELSE newest
    /\ UNCHANGED <<config, activeTab, searchQuery, isMobile, sidebarOpen, mounted,
                   dashboardConfig, hostname, loadCount>>
    /\ UNCHANGED copyVars
    /\ UNCHANGED clockVars
    /\ Rerender

\* the script runs (or fails to parse), then lines 101-119: script.onload
ScriptOnLoad(l, outcome) ==
    /\ l \in pending
    /\ View # "Crashed"
    /\ outcome \in Outcomes \ {"FetchError"}
    /\ pending' = pending \ {l}
    /\ dashboardConfig' = ScriptResult(dashboardConfig, outcome, hostname)
    /\ config' = OnloadConfig(config, dashboardConfig')
    /\ activeTab' = OnloadActiveTab(activeTab, l.closureTab, dashboardConfig')
    /\ error' = OnloadError(error, l.closureTab, dashboardConfig')
    /\ loading' = FALSE
    /\ toast' = SettleToast(l.origin, OnloadThrows(dashboardConfig', l.closureTab),
                            toast)
    /\ lastOp' = [op |-> "ScriptOnLoad", id |-> l.id, origin |-> l.origin,
                  outcome |-> outcome, closureTab |-> l.closureTab]
    /\ newest' = IF l.id = loadCount
                 THEN [done |-> TRUE, outcome |-> outcome] ELSE newest
    /\ UNCHANGED <<searchQuery, isMobile, sidebarOpen, mounted, hostname, loadCount>>
    /\ UNCHANGED copyVars
    /\ UNCHANGED clockVars
    /\ Rerender

\* lines 139-147 run a second time: a development build under React
\* StrictMode re-runs every mount effect, so loadConfig is called again
\* while the first script is still being fetched (lines 92-95 remove the
\* first script element from the DOM, which does not cancel its fetch)
MountEffectAgain ==
    /\ lastOp.op = "Mount"
    /\ StartLoad("mount", lastOp.closureTab)
    /\ lastOp' = [lastOp EXCEPT !.op = "MountEffectAgain", !.id = loadCount + 1]
    /\ UNCHANGED <<config, activeTab, searchQuery, isMobile, sidebarOpen, mounted,
                   dashboardConfig, hostname, toast>>
    /\ UNCHANGED copyVars
    /\ Rerender

----------------------------------------------------------------------------
(* the other handlers *)

QueryChars == {"g", "I", "t", " "}

\* the queries typed in the running application
TypedQueries == { <<" ">>, <<"g">>, <<"g", "I">> }

\* lastOp after a handler that is no part of a load
Ui == [NoOp EXCEPT !.op = "ui"]

\* lines 295-300
HandleTabChange(tabKey) ==
    /\ TabNavShown
    /\ tabKey \in TabKeys(config)
    /\ activeTab' = tabKey
    /\ sidebarOpen' = IF isMobile THEN FALSE ELSE sidebarOpen
    /\ lastOp' = Ui
    /\ UNCHANGED <<config, loading, error, searchQuery, isMobile, mounted,
                   dashboardConfig, hostname, pending, loadCount, toast, newest>>
    /\ UNCHANGED copyVars
    /\ UNCHANGED clockVars
    /\ Rerender

\* lines 513, 779: onChange={(e) => setSearchQuery(e.target.value)}
SetSearchQuery(q) ==
    /\ View = "Ready"
    /\ q # searchQuery
    /\ searchQuery' = q
    /\ lastOp' = Ui
    /\ UNCHANGED <<config, loading, error, activeTab, isMobile, sidebarOpen, mounted,
                   dashboardConfig, hostname, pending, loadCount, toast, newest>>
    /\ UNCHANGED copyVars
    /\ UNCHANGED clockVars
    /\ Rerender

\* lines 349-351, button rendered at 516, 782 when searchQuery is truthy
ClearSearch ==
    /\ View = "Ready"
    /\ searchQuery # <<>>
    /\ searchQuery' = <<>>
    /\ lastOp' = Ui
    /\ UNCHANGED <<config, loading, error, activeTab, isMobile, sidebarOpen, mounted,
                   dashboardConfig, hostname, pending, loadCount, toast, newest>>
    /\ UNCHANGED copyVars
    /\ UNCHANGED clockVars
    /\ Rerender

\* line 482: the menu button of the mobile header
OpenSidebar ==
    /\ View = "Ready"
    /\ isMobile
    /\ ~sidebarOpen
    /\ sidebarOpen' = TRUE
    /\ lastOp' = Ui
    /\ UNCHANGED <<config, loading, error, activeTab, searchQuery, isMobile, mounted,
                   dashboardConfig, hostname, pending, loadCount, toast, newest>>
    /\ UNCHANGED copyVars
    /\ UNCHANGED clockVars
    /\ Rerender

\* lines 429, 470: the chevron button and the overlay; lines 167-180: a
\* mousedown outside the sidebar and the menu button
CloseSidebar ==
    /\ View = "Ready"
    /\ isMobile
    /\ sidebarOpen
    /\ sidebarOpen' = FALSE
    /\ lastOp' = Ui
    /\ UNCHANGED <<config, loading, error, activeTab, searchQuery, isMobile, mounted,
                   dashboardConfig, hostname, pending, loadCount, toast, newest>>
    /\ UNCHANGED copyVars
    /\ UNCHANGED clockVars
    /\ Rerender

\* lines 156-161: the resize listener, when the width crosses 768
CheckMobile ==
    /\ mounted
    /\ View # "Crashed"
    /\ isMobile' = ~isMobile
    /\ lastOp' = Ui
    /\ UNCHANGED <<config, loading, error, activeTab, searchQuery, sidebarOpen,
                   mounted, dashboardConfig, hostname, pending, loadCount, toast,
                   newest>>
    /\ UNCHANGED copyVars
    /\ UNCHANGED clockVars
    /\ Rerender

----------------------------------------------------------------------------
(* copyToClipboard *)

\* lines 586-603, 652-719, 852-868, 995-1061: the urls that have a copy button
\* in this render: those of the search results while a query is typed, else
\* the main url of the active tab and the urls of its services
ServiceUrls(service) ==
    {service.url} \cup (IF HasAltUrl(service) THEN {service.alt_url} ELSE {})

CopyButtons ==
    IF View # "Ready" THEN {}
    ELSE IF searchQuery # <<>>
    THEN UNION {ServiceUrls(memoSearch.results[i].service) :
                    i \in 1..Len(memoSearch.results)}
    ELSE IF activeTabData = Null THEN {}
    ELSE {activeTabData.mainUrl}
           \cup UNION {ServiceUrls(activeTabData.services[i]) :
                           i \in 1..Len(activeTabData.services)}

\* faulty variant of SuccessMarker: a marker that is showing is not replaced
SuccessMarkerKeepFirst(cur, url) == IF cur = <<>> THEN <<url>> ELSE cur

\* line 228: setCopiedUrl(url)
SuccessMarker(cur, url) == <<url>>

\* faulty variant of CatchMarker: the catch block clears the marker
CatchMarkerCleared(cur) == <<>>

\* lines 235-263: the catch block calls no setCopiedUrl
CatchMarker(cur) == cur

\* faulty variant of TimeoutMarker: the callback leaves the marker as it is
TimeoutMarkerKept(cur) == cur

\* line 234: () => setCopiedUrl(null)
TimeoutMarker(cur) == <<>>

RemoveAt(s, i) == SubSeq(s, 1, i - 1) \o SubSeq(s, i + 1, Len(s))

\* lines 228-234: the statements after the copy went through
CopySucceeded(url) ==
    /\ copiedUrl' = SuccessMarker(copiedUrl, url)
    /\ toast' = "Copied"
    /\ timers' = timers + 1
    /\ lastCopied' = <<url>>

\* lines 235-263: the catch block; its iOS branch selects the text of a div
\* it removes at once and changes no state
CopyFailed ==
    /\ copiedUrl' = CatchMarker(copiedUrl)
    /\ toast' = "Copy Failed"
    /\ UNCHANGED <<timers, lastCopied>>

\* lines 198-264, up to the await of line 203, or to the end in the else
\* branch; successful is what document.execCommand("copy") returns
CopyToClipboard(url, successful) ==
    /\ url \in CopyButtons
    /\ copyCount < MaxCopies
    /\ copyCount' = copyCount + 1
    /\ IF clipboardApi
       THEN /\ writes' = Append(writes, url)
            /\ UNCHANGED <<copiedUrl, toast, timers, lastCopied, copyReport>>
       ELSE /\ writes' = writes
            /\ IF successful THEN CopySucceeded(url) ELSE CopyFailed
            /\ copyReport' =
                   [reported |-> IF successful THEN "Copied" ELSE "CopyFailed",
                    clipboardWrite |-> "untried",
                    manualCopy |-> IF successful THEN "succeeded" ELSE "failed"]
    /\ lastOp' = [NoOp EXCEPT !.op = "CopyToClipboard", !.id = copyCount + 1,
                              !.outcome = IF clipboardApi THEN "awaiting"
                                          ELSE IF successful THEN "copied"
                                          ELSE "failed"]
    /\ UNCHANGED <<config, loading, error, activeTab, searchQuery, isMobile,
                   sidebarOpen, mounted, dashboardConfig, hostname, pending,
                   loadCount, newest, clipboardApi>>
    /\ UNCHANGED clockVars
    /\ Rerender

\* line 203 resumed: the promise of writeText() number i is fulfilled
WriteTextResolved(i) ==
    /\ i \in 1..Len(writes)
    /\ writes' = RemoveAt(writes, i)
    /\ CopySucceeded(writes[i])
    /\ copyReport' = [reported |-> "Copied", clipboardWrite |-> "resolved",
                      manualCopy |-> "untried"]
    /\ lastOp' = [NoOp EXCEPT !.op = "WriteTextResolved", !.id = copyCount]
    /\ UNCHANGED <<config, loading, error, activeTab, searchQuery, isMobile,
                   sidebarOpen, mounted, dashboardConfig, hostname, pending,
                   loadCount, newest, clipboardApi, copyCount>>
    /\ UNCHANGED clockVars
    /\ Rerender

\* line 203 resumed: the promise of writeText() number i is rejected
WriteTextRejected(i) ==
    /\ i \in 1..Len(writes)
    /\ writes' = RemoveAt(writes, i)
    /\ CopyFailed
    /\ copyReport' = [reported |-> "CopyFailed", clipboardWrite |-> "rejected",
                      manualCopy |-> "untried"]
    /\ lastOp' = [NoOp EXCEPT !.op = "WriteTextRejected", !.id = copyCount]
    /\ UNCHANGED <<config, loading, error, activeTab, searchQuery, isMobile,
                   sidebarOpen, mounted, dashboardConfig, hostname, pending,
                   loadCount, newest, clipboardApi, copyCount>>
    /\ UNCHANGED clockVars
    /\ Rerender

\* line 234: the callback of setTimeout(() => setCopiedUrl(null), 1500); the
\* callbacks are alike and run in the order they were scheduled
CopiedTimeout ==
    /\ timers > 0
    /\ timers' = timers - 1
    /\ copiedUrl' = TimeoutMarker(copiedUrl)
    /\ lastOp' = [NoOp EXCEPT !.op = "CopiedTimeout", !.id = copyCount]
    /\ UNCHANGED <<config, loading, error, activeTab, searchQuery, isMobile,
                   sidebarOpen, mounted, dashboardConfig, hostname, pending,
                   loadCount, toast, newest, clipboardApi, writes, copyCount,
                   lastCopied, copyReport>>
    /\ UNCHANGED clockVars
    /\ Rerender

----------------------------------------------------------------------------
(* the clock *)

\* a millisecond passes
Tick ==
    /\ now < MaxClock
    /\ now' = now + 1
    /\ UNCHANGED <<config, loading, error, activeTab, searchQuery, isMobile,
                   sidebarOpen, mounted, dashboardConfig, hostname, pending,
                   loadCount, toast, lastOp, newest, memoSearch, tokens>>
    /\ UNCHANGED copyVars

----------------------------------------------------------------------------
(* specifications *)

\* lines 72-80: the useState initial values, before the first effect runs
Init ==
    /\ config = Null
    /\ loading = TRUE
    /\ error = NoError
    /\ activeTab = ""
    /\ searchQuery = <<>>
    /\ isMobile = FALSE
    /\ sidebarOpen = FALSE
    /\ mounted = FALSE
    /\ dashboardConfig = Null
    /\ hostname \in Hostnames
    /\ pending = {}
    /\ loadCount = 0
    /\ toast = "none"
    /\ lastOp = NoOp
    /\ newest = NoResult
    /\ memoSearch = [query |-> <<>>, config |-> Null, results |-> <<>>]
    /\ copiedUrl = <<>>
    /\ clipboardApi = TRUE
    /\ writes = <<>>
    /\ timers = 0
    /\ copyCount = 0
    /\ lastCopied = <<>>
    /\ copyReport = NoReport
    /\ now = 0
    /\ tokens = <<>>

Next ==
    \/ Mount
    \/ ReloadConfig
    \/ \E l \in pending : ScriptOnError(l)
    \/ \E l \in pending : \E o \in Outcomes : ScriptOnLoad(l, o)
    \/ \E k \in {"a", "b", "c"} : HandleTabChange(k)
    \/ \E q \in TypedQueries : SetSearchQuery(q)
    \/ ClearSearch
    \/ OpenSidebar
    \/ CloseSidebar
    \/ CheckMobile

\* the application as a production build runs it
Spec == Init /\ [][Next]_vars

\* a script that was requested fires its load or its error event
ScriptSettles ==
    \E l \in pending :
        ScriptOnError(l) \/ \E o \in Outcomes : ScriptOnLoad(l, o)

\* Spec with every requested script settling
SpecFair == Spec /\ WF_vars(ScriptSettles)

\* search as a function of (configuration, query): the application right
\* after its first load has installed a document, every document of one tab
\* with up to MaxServices services among them, then any query typed
ServicePool == {Plex, Gitea, Wiki}
ServiceLists == UNION {[1..n -> ServicePool] : n \in 0..MaxServices}
SearchDocuments ==
    {Document(n) : n \in DocNames}
      \cup {[tabs |-> <<[TabB EXCEPT !.services = ss]>>] : ss \in ServiceLists}

InitSearch ==
    \E d \in SearchDocuments :
        /\ hostname \in Hostnames
        /\ dashboardConfig = NormalizeConfig(d, hostname)
        /\ config = OnloadConfig(Null, dashboardConfig)
        /\ activeTab = OnloadActiveTab("", "", dashboardConfig)
        /\ loading = FALSE
        /\ error = NoError
        /\ searchQuery = <<>>
        /\ isMobile = FALSE
        /\ sidebarOpen = FALSE
        /\ mounted = TRUE
        /\ pending = {}
        /\ loadCount = 1
        /\ toast = "none"
        /\ lastOp = Ui
        /\ newest = [done |-> TRUE, outcome |-> "document"]
        /\ memoSearch = [query |-> <<>>, config |-> config, results |-> <<>>]
        /\ copiedUrl = <<>>
        /\ clipboardApi = TRUE
        /\ writes = <<>>
        /\ timers = 0
        /\ copyCount = 0
        /\ lastCopied = <<>>
        /\ copyReport = NoReport
        /\ now = 0
        /\ tokens = <<>>

\* one keystroke in the search box: a character more, or the last one less
Keystrokes(q) ==
    {Append(q, c) : c \in {x \in QueryChars : Len(q) < MaxQueryLen}}
      \cup {SubSeq(q, 1, Len(q) - 1)}

NextSearch ==
    \/ \E q \in Keystrokes(searchQuery) : SetSearchQuery(q)
    \/ ClearSearch

SpecSearch == InitSearch /\ [][NextSearch]_vars

\* the application under a development build, where React StrictMode re-runs
\* the mount effect and two loads are outstanding at once
NextOverlap == Next \/ MountEffectAgain

\* the dashboard once the first load has shown a configuration, with the copy
\* buttons in use
CopyDocuments == {Document("DocAB"), Document("DocBC")}

InitCopy ==
    \E d \in CopyDocuments :
        /\ hostname = <<"e","x",".","o","r","g">>
        /\ dashboardConfig = NormalizeConfig(d, hostname)
        /\ config = OnloadConfig(Null, dashboardConfig)
        /\ activeTab = OnloadActiveTab("", "", dashboardConfig)
        /\ loading = FALSE
        /\ error = NoError
        /\ searchQuery = <<>>
        /\ isMobile = FALSE
        /\ sidebarOpen = FALSE
        /\ mounted = TRUE
        /\ pending = {}
        /\ loadCount = 1
        /\ toast = "none"
        /\ lastOp = Ui
        /\ newest = [done |-> TRUE, outcome |-> "document"]
        /\ memoSearch = [query |-> <<>>, config |-> config, results |-> <<>>]
        /\ copiedUrl = <<>>
        /\ clipboardApi \in BOOLEAN
        /\ writes = <<>>
        /\ timers = 0
        /\ copyCount = 0
        /\ lastCopied = <<>>
        /\ copyReport = NoReport
        /\ now = 0
        /\ tokens = <<>>

NextCopy ==
    \/ \E u \in CopyButtons : \E ok \in BOOLEAN : CopyToClipboard(u, ok)
    \/ \E i \in 1..Len(writes) : WriteTextResolved(i)
    \/ \E i \in 1..Len(writes) : WriteTextRejected(i)
    \/ CopiedTimeout
    \/ \E k \in {"a", "b", "c"} : HandleTabChange(k)
    \/ \E q \in TypedQueries : SetSearchQuery(q)
    \/ ClearSearch

SpecCopy == InitCopy /\ [][NextCopy]_vars

\* a timeout that is due is run by the event loop
SpecCopyFair == SpecCopy /\ WF_vars(CopiedTimeout)

\* the search box with "(" among the keys, over the services of TabM
HighlightChars == {"g", "S", "3", "("}

HighlightKeystrokes(q) ==
    {Append(q, c) : c \in {x \in HighlightChars : Len(q) < MaxQueryLen}}
      \cup {SubSeq(q, 1, Len(q) - 1)}

InitHighlight ==
    /\ hostname \in Hostnames
    /\ dashboardConfig = NormalizeConfig([tabs |-> <<TabM>>], hostname)
    /\ config = OnloadConfig(Null, dashboardConfig)
    /\ activeTab = OnloadActiveTab("", "", dashboardConfig)
    /\ loading = FALSE
    /\ error = NoError
    /\ searchQuery = <<>>
    /\ isMobile = FALSE
    /\ sidebarOpen = FALSE
    /\ mounted = TRUE
    /\ pending = {}
    /\ loadCount = 1
    /\ toast = "none"
    /\ lastOp = Ui
    /\ newest = [done |-> TRUE, outcome |-> "document"]
    /\ memoSearch = [query |-> <<>>, config |-> config, results |-> <<>>]
    /\ copiedUrl = <<>>
    /\ clipboardApi = TRUE
    /\ writes = <<>>
    /\ timers = 0
    /\ copyCount = 0
    /\ lastCopied = <<>>
    /\ copyReport = NoReport
    /\ now = 0
    /\ tokens = <<>>

NextHighlight ==
    \/ \E q \in HighlightKeystrokes(searchQuery) : SetSearchQuery(q)
    \/ ClearSearch

SpecHighlight == InitHighlight /\ [][NextHighlight]_vars

\* the loader alone, with time passing between its steps
NextClock ==
    \/ Tick
    \/ Mount
    \/ MountEffectAgain
    \/ ReloadConfig
    \/ \E l \in pending : ScriptOnError(l)
    \/ \E l \in pending : \E o \in Outcomes : ScriptOnLoad(l, o)

SpecClock == Init /\ [][NextClock]_vars

SpecOverlap == Init /\ [][NextOverlap]_vars

----------------------------------------------------------------------------
(* Properties *)

LoadEnded == lastOp.op \in {"ScriptOnLoad", "ScriptOnError"}

\* the promise of the load that ended last was resolved (line 108)
LastResolved ==
    /\ lastOp.op = "ScriptOnLoad"
    /\ ~OnloadThrows(dashboardConfig, lastOp.closureTab)

AllWhiteSpace(q) == \A i \in 1..Len(q) : q[i] \in WhiteSpace

SameLetter(a, b) ==
    \/ a = b
    \/ \E i \in 1..Len(UpperLetters) :
          \/ a = UpperLetters[i] /\ b = LowerLetters[i]
          \/ a = LowerLetters[i] /\ b = UpperLetters[i]

\* q occurs in field, letter case ignored
ContainsCI(field, q) ==
    \E i \in 1..(Len(field) - Len(q) + 1) :
        \A j \in 1..Len(q) : SameLetter(field[i + j - 1], q[j])

\* C1: when a load whose script ran to its end completes and no other load is
\* in flight, the configuration held is that load's document with its
\* localhost addresses normalised, and its tabs are exactly the document's:
\* nothing of the configuration held before remains.
C1_LoadReplacesConfig ==
    (lastOp.op = "ScriptOnLoad" /\ lastOp.outcome \in DocNames /\ pending = {})
    => /\ config = NormalizeConfig(Document(lastOp.outcome), hostname)
       /\ Len(config.tabs) = Len(Document(lastOp.outcome).tabs)
       /\ \A i \in 1..Len(config.tabs) :
             /\ config.tabs[i].key = Document(lastOp.outcome).tabs[i].key
             /\ Len(config.tabs[i].services)
                   = Len(Document(lastOp.outcome).tabs[i].services)

\* a reload has replaced a configuration that had tab "a" (still the active
\* key) by the document with tabs b and c
C1_Witness ==
    /\ lastOp.op = "ScriptOnLoad" /\ lastOp.origin = "reload"
    /\ lastOp.outcome = "DocBC" /\ pending = {}
    /\ activeTab = "a"
    /\ TabKeys(config) = {"b", "c"}

\* C2: a load that installs a document with at least one tab while the active
\* tab key is empty leaves the active tab key equal to the first tab's key.
C2_DefaultTabIsFirst ==
    [][(/\ lastOp'.op = "ScriptOnLoad"
        /\ lastOp'.outcome \in DocNames
        /\ Len(Document(lastOp'.outcome).tabs) >= 1
        /\ activeTab = "")
       => activeTab' = Document(lastOp'.outcome).tabs[1].key]_vars

\* a load made with no tab selected has installed the two-tab document b, c
C2_Witness ==
    /\ lastOp.op = "ScriptOnLoad" /\ lastOp.closureTab = ""
    /\ lastOp.outcome = "DocBC"
    /\ activeTab = "b"
    /\ Len(config.tabs) = 2

C4_UnfetchedOrUnparsedFails ==
    (LoadEnded /\ lastOp.outcome \in {"FetchError", "SyntaxError"})
    => /\ error # NoError
       /\ View = "Error"
       /\ ~LastResolved

\* C5 (as claimed): a load whose document exposes no tabs sequence ends as a
\* fetch failure does: error set, Error view with its retry button.
C5_ShapeErrorShowsError ==
    (LoadEnded /\ lastOp.outcome \in {"NoTabs", "AssignsNull"})
    => /\ error # NoError
       /\ View = "Error"
       /\ ReloadButtonShown

\* C6 (as claimed): the configuration changes only when a load completes whose
\* document is present and exposes tabs and which does not end in error.
C6_ConfigChangesOnlyOnSuccess ==
    [][config' # config
       => /\ lastOp'.op = "ScriptOnLoad"
          /\ lastOp'.outcome \in DocNames
          /\ error' = NoError]_vars

\* C7 (as claimed): when the load started last has completed with a document
\* and an older load completed after it, then, no load being in flight, the
\* configuration is the document of the load started last.
C7_NewerLoadWins ==
    (/\ pending = {}
     /\ LoadEnded /\ lastOp.id < loadCount
     /\ newest.done /\ newest.outcome \in DocNames)
    => config = NormalizeConfig(Document(newest.outcome), hostname)

\* C8: a query that is empty or holds only whitespace gives no search result.
C8_BlankQueryNoResults ==
    AllWhiteSpace(searchQuery) => searchResults = <<>>

\* a whitespace query is held while the configuration has a service with a
\* space in its description
C8_Witness ==
    /\ searchQuery = <<" ", " ">>
    /\ lastOp = Ui
    /\ View = "Ready"
    /\ \E t \in 1..Len(config.tabs) : \E i \in 1..Len(config.tabs[t].services) :
          ContainsCI(config.tabs[t].services[i].description, <<" ">>)

\* C9 (as claimed): with an empty or whitespace-only query the search panel is
\* not shown and the active tab's services are.
C9_BlankQueryShowsTab ==
    (View = "Ready" /\ AllWhiteSpace(searchQuery))
    => /\ ~SearchPanelShown
       /\ activeTabData # Null => TabContentShown

MatchesClaim(service, q) ==
    \/ ContainsCI(service.name, q)
    \/ ContainsCI(service.description, q)
    \/ ContainsCI(service.url, q)
    \/ HasAltUrl(service) /\ ContainsCI(service.alt_url, q)

Positions(cfg) ==
    UNION {{<<t, i>> : i \in 1..Len(cfg.tabs[t].services)} : t \in 1..Len(cfg.tabs)}

ResultAt(cfg, p) ==
    [service |-> cfg.tabs[p[1]].services[p[2]],
     serverName |-> cfg.tabs[p[1]].name,
     serverKey |-> cfg.tabs[p[1]].key]

\* C10: for a query that is not blank, every search result is a service one of
\* whose name, description, url, alt_url (when present) contains the query,
\* letter case ignored, with the name and key of its own tab, and every such
\* service of the configuration is in the result exactly once.
C10_SearchExact ==
    (config # Null /\ HasTabs(config) /\ ~AllWhiteSpace(searchQuery))
    => LET hits == {p \in Positions(config) :
                       MatchesClaim(config.tabs[p[1]].services[p[2]], searchQuery)}
           R == searchResults
       IN /\ \A k \in 1..Len(R) : \E p \in hits : R[k] = ResultAt(config, p)
          /\ \A p \in hits :
                Cardinality({k \in 1..Len(R) : R[k] = ResultAt(config, p)})
                  = Cardinality({r \in hits : ResultAt(config, r) = ResultAt(config, p)})

\* in the document with tabs a (Plex, no alt_url) and b (Gitea) the query
\* "gIt" finds exactly Gitea, with the name and key of tab b
C10_Witness ==
    /\ TabKeys(config) = {"a", "b"}
    /\ searchQuery = <<"g", "I", "t">>
    /\ Len(searchResults) = 1
    /\ searchResults[1].service.name = Gitea.name
    /\ searchResults[1].serverName = "Dev"
    /\ searchResults[1].serverKey = "b"
    /\ ~HasAltUrl(config.tabs[1].services[1])

\* p comes before r in document order: an earlier tab, or the same tab and an
\* earlier service
Before(p, r) == p[1] < r[1] \/ (p[1] = r[1] /\ p[2] < r[2])

\* C11: the search results are the matching services in document order: the
\* k-th result is the matching service that has exactly k-1 matching services
\* before it, tabs first and services within a tab second.
C11_SearchInDocumentOrder ==
    (config # Null /\ HasTabs(config) /\ ~AllWhiteSpace(searchQuery))
    => LET hits == {p \in Positions(config) :
                       MatchesClaim(config.tabs[p[1]].services[p[2]], searchQuery)}
           R == searchResults
       IN /\ Len(R) = Cardinality(hits)
          /\ \A p \in hits :
                R[Cardinality({r \in hits : Before(r, p)}) + 1] = ResultAt(config, p)

\* the query "gIt" on a tab whose services are Wiki then Gitea finds both,
\* Wiki first
C11_Witness ==
    /\ Len(config.tabs) = 1
    /\ Len(config.tabs[1].services) = 2
    /\ config.tabs[1].services[1].name = Wiki.name
    /\ config.tabs[1].services[2].name = Gitea.name
    /\ searchQuery = <<"g", "I", "t">>
    /\ Len(searchResults) = 2
    /\ searchResults[1].service.name = Wiki.name
    /\ searchResults[2].service.name = Gitea.name

\* the places of u at which "localhost" starts
Occurrences(u) ==
    {i \in 1..(Len(u) - Len(LOCALHOST) + 1) :
        \A j \in 1..Len(LOCALHOST) : u[i + j - 1] = LOCALHOST[j]}

\* a load has just installed the document lastOp.outcome
Installed == lastOp.op = "ScriptOnLoad" /\ lastOp.outcome \in DocNames

\* <<field as written in the document, field as held after the load>>, for
\* every mainUrl, url and alt_url
UrlFields(doc, cfg) ==
    {<<doc.tabs[t].mainUrl, cfg.tabs[t].mainUrl>> : t \in 1..Len(doc.tabs)}
      \cup {<<doc.tabs[p[1]].services[p[2]].url, cfg.tabs[p[1]].services[p[2]].url>> :
               p \in Positions(doc)}
      \cup {<<doc.tabs[p[1]].services[p[2]].alt_url,
              cfg.tabs[p[1]].services[p[2]].alt_url>> :
               p \in {r \in Positions(doc) : HasAltUrl(doc.tabs[r[1]].services[r[2]])}}

\* C13: after a load, a mainUrl, url or alt_url that does not contain
\* "localhost" is as the document has it, and one that contains it once is the
\* same string with that token replaced by the hostname, what precedes it
\* (the scheme) and what follows it (port, path) unchanged.
C13_NormalizeOneOccurrence ==
    Installed
    => \A f \in UrlFields(Document(lastOp.outcome), config) :
          /\ Occurrences(f[1]) = {} => f[2] = f[1]
          /\ \A i \in Occurrences(f[1]) :
                Cardinality(Occurrences(f[1])) = 1
                => f[2] = SubSeq(f[1], 1, i - 1) \o hostname
                            \o SubSeq(f[1], i + Len(LOCALHOST), Len(f[1]))

\* served from ex.org, the mainUrl http://localhost:8080 of tab a is held as
\* http://ex.org:8080 and the url of Plex, which has no localhost, as written
C13_Witness ==
    /\ Installed /\ lastOp.outcome = "DocAB"
    /\ hostname = <<"e","x",".","o","r","g">>
    /\ TabA.mainUrl = HTTP \o LOCALHOST \o <<":","8","0","8","0">>
    /\ config.tabs[1].mainUrl = HTTP \o <<"e","x",".","o","r","g",":","8","0","8","0">>
    /\ config.tabs[1].services[1].url = Plex.url

\* C14 (as claimed): after a load served from a hostname that does not contain
\* "localhost", no mainUrl, url or alt_url held contains "localhost".
C14_NoLocalhostLeft ==
    (Installed /\ Occurrences(hostname) = {})
    => \A f \in UrlFields(Document(lastOp.outcome), config) : Occurrences(f[2]) = {}

\* the entry with an alt_url added
WithAltUrl(service) == [alt_url |-> HTTP \o LOCALHOST] @@ service

\* C15: after a load, a service has an alt_url exactly when its document entry
\* has one; for an entry without alt_url the name, url and description held are
\* those the same entry with an alt_url would get; the active-tab projection
\* and the search over the loaded configuration are defined.
C15_AbsentAltUrlStaysAbsent ==
    Installed
    => /\ \A p \in Positions(config) :
          LET entry == Document(lastOp.outcome).tabs[p[1]].services[p[2]]
              held == config.tabs[p[1]].services[p[2]]
              other == NormalizeService(WithAltUrl(entry), hostname)
          IN /\ DOMAIN held = DOMAIN entry
             /\ ~HasAltUrl(entry)
                => /\ held.name = other.name
                   /\ held.url = other.url
                   /\ held.description = other.description
       /\ activeTabData \in {Null} \cup {config.tabs[t] : t \in 1..Len(config.tabs)}
       /\ \A q \in TypedQueries : Len(search(config, q)) <= Cardinality(Positions(config))

\* the document with Plex (no alt_url) and Gitea (alt_url) has been loaded:
\* Plex is held without alt_url, Gitea with one
C15_Witness ==
    /\ Installed /\ lastOp.outcome = "DocAB"
    /\ ~HasAltUrl(Plex) /\ ~HasAltUrl(config.tabs[1].services[1])
    /\ HasAltUrl(config.tabs[2].services[1])
    /\ config.tabs[1].services[1].name = Plex.name

\* C12: whenever the dashboard is rendered, the results it holds for display
\* are exactly the result of the search function on the current configuration
\* and the current query, whatever query changes and reloads came before: no
\* result computed for an earlier configuration or query survives.
C12_ResultsAreCurrent ==
    ~RenderThrows => memoSearch.results = search(config, searchQuery)

\* a reload replaced the configuration of tabs a, b by the one of tabs b, c
\* while the query "g" stayed typed, and the three matches of the new
\* configuration are held
C12_Witness ==
    /\ lastOp.op = "ScriptOnLoad" /\ lastOp.origin = "reload"
    /\ lastOp.outcome = "DocBC"
    /\ activeTab = "a"
    /\ searchQuery = <<"g">>
    /\ memoSearch.query = searchQuery /\ memoSearch.config = config
    /\ Len(memoSearch.results) = 3

\* the transitions of the view that C16 allows
AllowedViewSteps ==
    { <<"Loading", "Ready">>, <<"Loading", "Error">>,
      <<"Ready", "Loading">>, <<"Error", "Loading">> }

\* C16: the view moves only from Loading to Ready, from Loading to Error,
\* from Ready to Loading and from Error to Loading; tab selection, search
\* text change and sidebar toggle never change the view.
C16_ViewTransitions ==
    [][ /\ View' # View => <<View, View'>> \in AllowedViewSteps
        /\ lastOp'.op = "ui" => View' = View ]_vars

\* C17: in every state where the view is neither Loading nor Error the
\* configuration held exposes a tabs sequence.
C17_ReadyConfigHasTabs ==
    View \notin {"Loading", "Error"} => config # Null /\ HasTabs(config)

\* the step is a copy that ended in the catch block
CopyFailedStep ==
    \/ lastOp'.op = "CopyToClipboard" /\ lastOp'.outcome = "failed"
    \/ lastOp'.op = "WriteTextRejected"

\* the step is a copy that went through
CopySucceededStep ==
    \/ lastOp'.op = "CopyToClipboard" /\ lastOp'.outcome = "copied"
    \/ lastOp'.op = "WriteTextResolved"

\* C18: the last-copied marker is at all times empty or the url of the most
\* recently completed successful copy; a successful copy of u sets it to u and
\* a failed copy leaves it as it was.
C18_MarkerIsLastCopied ==
    /\ [](copiedUrl = <<>> \/ copiedUrl = lastCopied)
    /\ [][ /\ CopySucceededStep => copiedUrl' = lastCopied' /\ copiedUrl' # <<>>
           /\ CopyFailedStep => copiedUrl' = copiedUrl ]_vars

\* a second copy went through while the marker of the first was still
\* showing, and the marker is the url of the second
C18_Witness ==
    /\ lastOp.op = "WriteTextResolved"
    /\ timers = 2
    /\ copiedUrl = <<NormalizeUrl(Gitea.alt_url, hostname)>>
    /\ lastCopied = copiedUrl

\* the step is a copy without the clipboard API whose execCommand failed
FallbackFailedStep ==
    /\ ~clipboardApi
    /\ lastOp'.op = "CopyToClipboard" /\ lastOp'.outcome = "failed"

\* C19: when the clipboard API is unavailable and the manual fallback copy
\* fails, the failure notification is shown and configuration, active tab,
\* search query, loading flag, error flag and last-copied marker are unchanged.
C19_FallbackFailureIsQuiet ==
    [][ FallbackFailedStep =>
          /\ toast' = "Copy Failed"
          /\ copyReport'.reported = "CopyFailed"
          /\ UNCHANGED <<config, activeTab, searchQuery, loading, error,
                         copiedUrl>> ]_vars

\* the fallback failed while the marker of an earlier copy was showing
C19_Witness ==
    /\ ~clipboardApi
    /\ lastOp.op = "CopyToClipboard" /\ lastOp.outcome = "failed"
    /\ toast = "Copy Failed"
    /\ copiedUrl # <<>>
    /\ timers = 1

\* C20: a copy reports CopyFailed if and only if both the clipboard write and
\* the manual copy have failed (a clipboard API that is unavailable counts as
\* a failed clipboard write); none reports failure with a technique untried.
C20_FailedIffBothFailed ==
    copyReport.reported = "CopyFailed" <=>
        /\ copyReport.manualCopy = "failed"
        /\ \/ copyReport.clipboardWrite = "rejected"
           \/ copyReport.clipboardWrite = "untried" /\ ~clipboardApi

\* C21: every load requests config.js with a token that differs from the
\* token of every earlier load of the session, and tokens never decrease from
\* one load to the next.
C21_TokensFresh ==
    \A i \in 1..Len(tokens) : \A j \in 1..Len(tokens) :
        i < j => tokens[i] < tokens[j]

\* C22: after a successful reload the active tab is a key of a tab of the
\* current configuration (the first tab when the previous key is gone) or the
\* empty selection; it is never a key that no tab of the configuration has.
C22_VanishedTabFallsBack ==
    (/\ lastOp.op = "ScriptOnLoad" /\ lastOp.origin = "reload"
     /\ lastOp.outcome \in DocNames /\ error = NoError)
        => activeTab = "" \/ activeTab \in TabKeys(config)

\* C23: once no load is in flight, the error is set if and only if the load
\* that completed last failed: a document installed by the last completion
\* leaves no error and the view Ready, a fetch failure of the last completion
\* leaves the error set.
C23_LastCompletionDecides ==
    pending = {} =>
        /\ (lastOp.op = "ScriptOnLoad" /\ lastOp.outcome \in DocNames)
              => error = NoError /\ View = "Ready"
        /\ lastOp.op = "ScriptOnError" => error # NoError

\* C24: whenever the view is Ready a tab is selected: the active tab key is
\* not empty, whatever configuration was loaded.
C24_ReadyHasTab == View = "Ready" => activeTab # ""

\* C25: the expiry timer started by an earlier copy never clears the marker
\* set by a later copy: a timeout that runs while the timeout of a later
\* successful copy is still to come leaves the marker as it is.
C25_OldTimerSparesNewMarker ==
    [][ (timers > 1 /\ timers' = timers - 1) => copiedUrl' = copiedUrl ]_vars

\* C26: the copied indicator is transient: once no further copy is made the
\* last-copied marker returns to empty and stays empty.
C26_MarkerExpires == <>[](copiedUrl = <<>>)

\* two copies went through, every timeout has run and the marker is empty
C26_Witness ==
    /\ lastOp.op = "CopiedTimeout"
    /\ copyCount >= 2 /\ writes = <<>> /\ timers = 0
    /\ lastCopied # <<>>
    /\ copiedUrl = <<>>

\* the texts the search panel passes to highlightText for one service
HighlightedFields(service) ==
    {service.name, service.description, service.url}
      \cup (IF HasAltUrl(service) THEN {service.alt_url} ELSE {})

\* the parts are exactly the occurrences of q in the text: a marked part is
\* q up to the case of its letters and an unmarked part holds no q
ExactParts(parts, q) ==
    \A i \in 1..Len(parts) :
        IF parts[i].mark
        THEN toLowerCase(parts[i].part) = toLowerCase(q)
        ELSE ~includes(toLowerCase(parts[i].part), toLowerCase(q))

\* C27: for every query, also one with a regular-expression metacharacter,
\* rendering the search results raises no fault, and the highlighted parts
\* are exactly the case-insensitive occurrences of the query text.
C27_HighlightNeverFaults ==
    /\ ~HighlightThrows
    /\ SearchPanelShown =>
          \A i \in 1..Len(memoSearch.results) :
              \A text \in HighlightedFields(memoSearch.results[i].service) :
                  ExactParts(highlightText(text, searchQuery), searchQuery)

\* C28: every load attempt eventually leaves Loading: with a script that
\* eventually loads or errors, the view becomes Ready or Error; and a load
\* starts only on mount and on the reload or retry button, never by itself
\* after a failed load.
C28_LoadLeavesLoading ==
    /\ (pending # {}) ~> (View \in {"Ready", "Error"})
    /\ [][loadCount' # loadCount => lastOp'.op \in {"Mount", "ReloadConfig"}]_vars

============================================================================
